---- MODULE Spec2Model ----
(***************************************************************************)
(* Model of src/classifier.py: the Classifier of the flower image         *)
(* classifier project.  The object's construction (__init__), the         *)
(* re-initialisation of the network (_initialize_network), the forward    *)
(* pass, and one pass over a data loader built by _get_data_loaders.      *)
(*                                                                         *)
(* Numbers: learning rates are in thousandths (0.001 is 1), dropout is in *)
(* percent (0.2 is 20).  Python's None is the record None.  A raised      *)
(* exception is a record [kind |-> the exception class, ...].             *)
(***************************************************************************)
EXTENDS Integers, Sequences, FiniteSets, TLC

VARIABLES
    fs,            \* the directories that exist on the filesystem
    pc,            \* "new" | "ready" (constructed) | "failed" (__init__ raised)
    data_dir,      \* the data_dir argument of the constructor call
    config,        \* self.config
    data_dirs,     \* self.data_dirs
    data_transforms, \* self.data_transforms
    data_sets,     \* self.data_sets
    data_loaders,  \* self.data_loaders
    model,         \* self.model
    optimizer,     \* self.optimizer
    gen,           \* number of pre-trained models instantiated so far
    err,           \* the exception raised by the last call, or None
    lastOp,        \* the last call and its outcome
    fwd,           \* what the last forward call did
    split,         \* loader pass: the split whose loader is iterated
    N,             \* loader pass: size of the dataset
    order,         \* loader pass: the sampler's order of the sample indices
    pos,           \* loader pass: samples consumed so far
    batches        \* loader pass: the batches yielded so far

vars == <<fs, pc, data_dir, config, data_dirs, data_transforms, data_sets, data_loaders, model,
          optimizer, gen, err, lastOp, fwd, split, N, order, pos, batches>>

ctorVars == <<fs, pc, data_dir, config, data_dirs, data_transforms, data_sets, data_loaders, model,
              optimizer, gen, err, lastOp, fwd>>

loaderVars == <<split, N, order, pos, batches>>

-----------------------------------------------------------------------------
(* Bounds of the model. *)

\* _initialize_network is called at most this many times on one object
MaxInits == 3

\* the interpreter's recursion limit, in frames of Classifier.forward
MaxDepth == 4

\* largest dataset whose loader is iterated
MaxN == 130

\* number of rotations the shuffling sampler chooses its order from
MaxShuffles == 3

-----------------------------------------------------------------------------
(* Values. *)

None == [kind |-> "None"]

Splits == {"test", "train", "valid"}

\* the iteration order of the data_dirs dictionary (insertion order)
SplitOrder == <<"test", "train", "valid">>

DataRoot == [kind |-> "path", parts |-> <<"flowers">>]

\* the input sets the operations draw from
DataDirArgs == {None, DataRoot}
Architectures == {"vgg16", "alexnet", "resnet18", "densenet121", "densenet", "not_a_real_net"}
HiddenUnits == {512, 256}
LearningRates == {1, 3, -1}
Dropouts == {20, 50}

\* the keys of the configuration record a reload changes, and their values
ConfigValues == [architecture |-> Architectures, hidden_units |-> HiddenUnits,
                 learning_rate |-> LearningRates, dropout |-> Dropouts]

Error(kind, msg, name, p) == [kind |-> kind, msg |-> msg, name |-> name, path |-> p]

IsError(x) ==
    x.kind \in {"TypeError", "NotADirectoryError", "ValueError", "AttributeError", "RecursionError"}

-----------------------------------------------------------------------------
(* The collaborators: os.path and torchvision.models, as far as the code  *)
(* depends on them.                                                       *)

\* os.path.join(data_dir, ds): a TypeError when data_dir is None
join(dir, ds) ==
    IF dir = None
    THEN Error("TypeError", "expected str, bytes or os.PathLike object, not NoneType", "join", None)
    ELSE [kind |-> "path", parts |-> Append(dir.parts, ds)]

\* os.path.isdir(p) on the filesystem f
isdir(f, p) == p \in f

\* the names getattr(models, name) resolves
ModelsNamespace == {"vgg16", "alexnet", "resnet18", "densenet121", "densenet"}

\* the names that resolve to a model constructor; "densenet" is a sub-module of
\* torchvision.models, which is not callable
ModelFactories == {"vgg16", "alexnet", "resnet18", "densenet121"}

\* the attribute of the pre-trained model that holds its classification
\* sub-module, the one its forward path ends with
ClassifierAttr(arch) == IF arch = "resnet18" THEN "fc" ELSE "classifier"

\* the attribute names of the pre-trained model's sub-modules
PretrainedAttrs(arch) ==
    IF arch = "resnet18" THEN {"conv1", "layer4", "fc"} ELSE {"features", "classifier"}

\* the width of the feature vector the pre-trained classification sub-module takes
FeatureWidth(arch) ==
    CASE arch = "vgg16" -> 25088
      [] arch = "alexnet" -> 9216
      [] arch = "resnet18" -> 512
      [] arch = "densenet121" -> 1024

\* the parameters of sub-module attr of the g-th instantiated model (weight, bias)
ParamsOf(g, attr) == {<<g, attr, "weight">>, <<g, attr, "bias">>}

\* model_factory(pretrained=True): the g-th instantiated pre-trained model;
\* every parameter is trainable
Pretrained(arch, g) ==
    LET children == [a \in PretrainedAttrs(arch) |-> ParamsOf(g, a)]
    IN  [kind |-> "model", arch |-> arch, gen |-> g,
         children |-> children,
         requires_grad |-> [p \in UNION {children[a] : a \in DOMAIN children} |-> TRUE],
         head |-> None,
         output_attr |-> ClassifierAttr(arch)]

\* model.parameters()
Parameters(m) == UNION {m.children[a] : a \in DOMAIN m.children}

-----------------------------------------------------------------------------
(* Classifier._get_directories *)

\* the dictionary built first: one os.path.join per split
JoinedDirs(dir) == [ds \in Splits |-> join(dir, ds)]

\* the splits whose directory does not exist
Missing(f, dir) == {ds \in Splits : ~isdir(f, join(dir, ds))}

\* the loop over dirs: the first split, in the dictionary's order, whose
\* directory does not exist; "" when all exist
RECURSIVE FirstMissing(_, _, _)
FirstMissing(f, dirs, i) ==
    IF i > Len(SplitOrder) THEN ""
    ELSE IF ~isdir(f, dirs[SplitOrder[i]]) THEN SplitOrder[i]
    ELSE FirstMissing(f, dirs, i + 1)

\* a plausible slip: the error always names the first split of the dictionary
GetDataDirectoriesNamesFirst(f, dir) ==
    IF dir = None THEN join(dir, "test")
    ELSE LET dirs == JoinedDirs(dir)
             ds == FirstMissing(f, dirs, 1)
         IN  IF ds # ""
             THEN Error("NotADirectoryError", "does not exist for the data set", "test", dirs["test"])
             ELSE [kind |-> "dirs", paths |-> dirs]

\* the result of _get_directories(dir): the dictionary of paths, or
\* the exception raised
GetDataDirectories(f, dir) ==
    IF dir = None THEN join(dir, "test")
    ELSE LET dirs == JoinedDirs(dir)
             ds == FirstMissing(f, dirs, 1)
         IN  IF ds # ""
             THEN Error("NotADirectoryError", "does not exist for the data set", ds, dirs[ds])
             ELSE [kind |-> "dirs", paths |-> dirs]

-----------------------------------------------------------------------------
(* Classifier._get_data_transforms, _get_image_datasets, _get_data_loaders *)

GetDataTransforms ==
    [train |-> <<"RandomRotation", "RandomResizedCrop", "RandomHorizontalFlip", "ToTensor">>,
     valid |-> <<"Resize", "CenterCrop", "ToTensor", "Normalize">>,
     test  |-> <<"Resize", "CenterCrop", "ToTensor", "Normalize">>]

GetImageDatasets(dirs, transforms) ==
    [ds \in Splits |-> [kind |-> "ImageFolder", root |-> dirs[ds], transform |-> transforms[ds]]]

\* the batch size of every loader
BatchSize == 64

\* a plausible slip: the train loader drops its partial last batch
LoaderOptionsDropLast(ds) ==
    [batch_size |-> BatchSize, shuffle |-> (ds = "train"), drop_last |-> TRUE]

\* the options _get_data_loaders gives the loader of split ds; drop_last is
\* not given and has DataLoader's default
LoaderOptions(ds) ==
    [batch_size |-> BatchSize, shuffle |-> (ds = "train"), drop_last |-> FALSE]

GetDataLoaders(sets) ==
    [ds \in Splits |-> [kind |-> "DataLoader", dataset |-> sets[ds], options |-> LoaderOptions(ds)]]

-----------------------------------------------------------------------------
(* Classifier._get_model *)

\* a plausible slip: the loop freezes nothing
FreezeNothing(m) == m

\* the loop over model.parameters(): requires_grad = False on every one
Freeze(m) == [m EXCEPT !.requires_grad = [p \in DOMAIN @ |-> FALSE]]

\* the custom classifier: Linear, ReLU, Dropout, Linear, LogSoftmax
NewClassifier(cfg, g) ==
    [kind |-> "Sequential",
     in_features |-> cfg.input_units,
     hidden |-> cfg.hidden_units,
     dropout |-> cfg.dropout,
     out_features |-> cfg.output_units,
     params |-> {<<g, "clr0", "weight">>, <<g, "clr0", "bias">>,
                 <<g, "clr3", "weight">>, <<g, "clr3", "bias">>}]

\* model.classifier = clr: the attribute classifier is set (added when the
\* model has none); the new module's parameters are trainable
AttachClassifier(m, clr) ==
    LET children == [a \in DOMAIN m.children \cup {"classifier"} |->
                        IF a = "classifier" THEN clr.params ELSE m.children[a]]
        ps == UNION {children[a] : a \in DOMAIN children}
    IN  [m EXCEPT !.children = children,
                  !.requires_grad = [p \in ps |-> IF p \in clr.params THEN TRUE
                                                  ELSE m.requires_grad[p]],
                  !.head = clr]

\* a plausible slip: the failed lookup is not caught and the AttributeError
\* reaches the caller
GetModelUncaught(cfg, g) ==
    IF cfg.architecture \notin ModelsNamespace
    THEN Error("AttributeError", "module has no attribute", cfg.architecture, None)
    ELSE IF cfg.architecture \notin ModelFactories
    THEN Error("TypeError", "object is not callable", cfg.architecture, None)
    ELSE AttachClassifier(Freeze(Pretrained(cfg.architecture, g)), NewClassifier(cfg, g))

\* the result of _get_model() as the g-th instantiation: the model, or the
\* exception raised
GetModel(cfg, g) ==
    IF cfg.architecture \notin ModelsNamespace
    THEN Error("ValueError", "Unknown model architecture", cfg.architecture, None)
    ELSE IF cfg.architecture \notin ModelFactories
    THEN Error("TypeError", "object is not callable", cfg.architecture, None)
    ELSE AttachClassifier(Freeze(Pretrained(cfg.architecture, g)), NewClassifier(cfg, g))

\* the parameters that report requires_grad
Trainable(m) == {p \in Parameters(m) : m.requires_grad[p]}

\* the parameters of the pre-trained sub-modules other than the classification
\* sub-module
ExtractorParams(m) ==
    UNION {ParamsOf(m.gen, a) : a \in PretrainedAttrs(m.arch) \ {ClassifierAttr(m.arch)}}

-----------------------------------------------------------------------------
(* Classifier._initialize_network *)

\* optim.Adam(params, lr): a negative learning rate is a ValueError
Adam(params, lr) ==
    IF lr < 0 THEN Error("ValueError", "Invalid learning rate", "lr", None)
    ELSE [kind |-> "Adam", params |-> params, lr |-> lr]

\* a plausible slip: the optimizer is given every parameter of the model
InitializeNetworkAllParams(cfg, g, m0, o0) ==
    LET m == GetModel(cfg, g + 1)
    IN  IF IsError(m) THEN [model |-> m0, optimizer |-> o0, err |-> m, gen |-> g]
        ELSE LET o == Adam(Parameters(m), cfg.learning_rate)
             IN  IF IsError(o) THEN [model |-> m, optimizer |-> o0, err |-> o, gen |-> g + 1]
                 ELSE [model |-> m, optimizer |-> o, err |-> None, gen |-> g + 1]

\* _initialize_network() on an object whose model and optimizer are m0 and o0,
\* after g instantiations: the two assignments in order, each only made when
\* its right-hand side did not raise
InitializeNetwork(cfg, g, m0, o0) ==
    LET m == GetModel(cfg, g + 1)
    IN  IF IsError(m) THEN [model |-> m0, optimizer |-> o0, err |-> m, gen |-> g]
        ELSE LET o == Adam(m.children["classifier"], cfg.learning_rate)
             IN  IF IsError(o) THEN [model |-> m, optimizer |-> o0, err |-> o, gen |-> g + 1]
                 ELSE [model |-> m, optimizer |-> o, err |-> None, gen |-> g + 1]

-----------------------------------------------------------------------------
(* Classifier.forward *)

\* the frame of Classifier.forward at depth d: it calls self.forward, which
\* raises RecursionError once the interpreter's limit is reached; the
\* composed model is never called
RECURSIVE ForwardFrame(_)
ForwardFrame(d) ==
    IF d >= MaxDepth
    THEN [selfCalls |-> 0, modelCalls |-> 0,
          raised |-> Error("RecursionError", "maximum recursion depth exceeded", "forward", None)]
    ELSE LET r == ForwardFrame(d + 1) IN [r EXCEPT !.selfCalls = @ + 1]

NoForward == [selfCalls |-> 0, modelCalls |-> 0, raised |-> None]

-----------------------------------------------------------------------------
(* The object: construction, configuration reload, re-initialisation,     *)
(* forward.                                                               *)

NoConfig == [architecture |-> "", dropout |-> 0, epochs |-> 0, hidden_units |-> 0,
             learning_rate |-> 0, input_units |-> 0, output_units |-> 0]

CtorInit ==
    /\ fs \in SUBSET {join(DataRoot, ds) : ds \in Splits}
    /\ pc = "new"
    /\ data_dir = None
    /\ config = NoConfig
    /\ data_dirs = None
    /\ data_transforms = None
    /\ data_sets = None
    /\ data_loaders = None
    /\ model = None
    /\ optimizer = None
    /\ gen = 0
    /\ err = None
    /\ lastOp = "none"
    /\ fwd = NoForward

\* Classifier(data_dir, architecture=..., hidden_units=..., learning_rate=...,
\* dropout=...); output_units and epochs keep their defaults
Construct(dir, architecture, hidden_units, learning_rate, dropout) ==
    LET cfg == [architecture |-> architecture, dropout |-> dropout, epochs |-> 1,
                hidden_units |-> hidden_units, learning_rate |-> learning_rate,
                input_units |-> 1, output_units |-> 102]
        dirs == GetDataDirectories(fs, dir)
    IN  /\ pc = "new"
        /\ data_dir' = dir
        /\ config' = cfg
        /\ fwd' = fwd
        /\ fs' = fs
        /\ IF IsError(dirs)
           THEN /\ pc' = "failed"
                /\ err' = dirs
                /\ lastOp' = "construct_failed"
                /\ UNCHANGED <<data_dirs, data_transforms, data_sets, data_loaders,
                               model, optimizer, gen>>
           ELSE LET sets == GetImageDatasets(dirs.paths, GetDataTransforms)
                    r == InitializeNetwork(cfg, gen, None, None)
                IN  /\ data_dirs' = dirs.paths
                    /\ data_transforms' = GetDataTransforms
                    /\ data_sets' = sets
                    /\ data_loaders' = GetDataLoaders(sets)
                    /\ model' = r.model
                    /\ optimizer' = r.optimizer
                    /\ gen' = r.gen
                    /\ err' = r.err
                    /\ pc' = IF r.err = None THEN "ready" ELSE "failed"
                    /\ lastOp' = IF r.err = None THEN "construct_ok" ELSE "construct_failed"

\* the configuration record is changed from outside (a checkpoint reload)
SetConfig(key, value) ==
    /\ pc = "ready"
    /\ config' = [config EXCEPT ![key] = value]
    /\ config' # config
    /\ lastOp' = "set_config"
    /\ UNCHANGED <<fs, pc, data_dir, data_dirs, data_transforms, data_sets, data_loaders,
                   model, optimizer, gen, err, fwd>>

\* _initialize_network() called again on the constructed object
Reinitialize ==
    LET r == InitializeNetwork(config, gen, model, optimizer)
    IN  /\ pc = "ready"
        /\ gen < MaxInits
        /\ model' = r.model
        /\ optimizer' = r.optimizer
        /\ gen' = r.gen
        /\ err' = r.err
        /\ lastOp' = IF r.err = None THEN "init_ok" ELSE "init_failed"
        /\ UNCHANGED <<fs, pc, data_dir, config, data_dirs, data_transforms, data_sets,
                       data_loaders, fwd>>

\* forward(features) called on the constructed object
Forward ==
    LET r == ForwardFrame(1)
    IN  /\ pc = "ready"
        /\ fwd' = r
        /\ err' = r.raised
        /\ lastOp' = "forward"
        /\ UNCHANGED <<fs, pc, data_dir, config, data_dirs, data_transforms, data_sets,
                       data_loaders, model, optimizer, gen>>

NoLoaderPass ==
    /\ split = "train"
    /\ N = 0
    /\ order = <<>>
    /\ pos = 0
    /\ batches = <<>>

Init == CtorInit /\ NoLoaderPass

Next ==
    \/ \E d \in DataDirArgs, a \in Architectures, h \in HiddenUnits,
          l \in LearningRates, p \in Dropouts :
          Construct(d, a, h, l, p) /\ UNCHANGED loaderVars
    \/ \E key \in DOMAIN ConfigValues : \E value \in ConfigValues[key] :
          SetConfig(key, value) /\ UNCHANGED loaderVars
    \/ Reinitialize /\ UNCHANGED loaderVars
    \/ Forward /\ UNCHANGED loaderVars

Spec == Init /\ [][Next]_vars

-----------------------------------------------------------------------------
(* One pass over a loader built by _get_data_loaders.                     *)

Min(a, b) == IF a < b THEN a ELSE b

\* the indices 1..n rotated by r
Rotate(n, r) == [i \in 1..n |-> ((i - 1 + r) % n) + 1]

\* the indices 1..n in reverse
Reverse(n) == [i \in 1..n |-> n + 1 - i]

\* the orders the loader's sampler may produce for a dataset of n samples: the
\* sequential order without shuffle; with shuffle a permutation, drawn here
\* from rotations and the reversal
SamplerOrders(opts, n) ==
    IF opts.shuffle
    THEN {Rotate(n, r * 37) : r \in 0..(MaxShuffles - 1)} \cup {Reverse(n)}
    ELSE {Rotate(n, 0)}

\* the batch the loader yields after p samples of the order ord were
\* consumed; <<>> when the pass is over
NextBatchOf(opts, ord, p) ==
    LET b == SubSeq(ord, p + 1, Min(p + opts.batch_size, Len(ord)))
    IN  IF p >= Len(ord) THEN <<>>
        ELSE IF Len(b) < opts.batch_size /\ opts.drop_last THEN <<>>
        ELSE b

LoaderInit ==
    /\ CtorInit
    /\ fs = {join(DataRoot, ds) : ds \in Splits}
    /\ split \in Splits
    /\ N \in 1..MaxN
    /\ order \in SamplerOrders(LoaderOptions(split), N)
    /\ pos = 0
    /\ batches = <<>>

\* next(iterator): the loader yields its next batch
NextBatch ==
    LET b == NextBatchOf(LoaderOptions(split), order, pos)
    IN  /\ b # <<>>
        /\ batches' = Append(batches, b)
        /\ pos' = pos + Len(b)
        /\ UNCHANGED <<split, N, order>>

\* iter(loader) after a finished pass: a new pass, with a new order
NewPass ==
    /\ NextBatchOf(LoaderOptions(split), order, pos) = <<>>
    /\ order' \in SamplerOrders(LoaderOptions(split), N)
    /\ pos' = 0
    /\ batches' = <<>>
    /\ UNCHANGED <<split, N>>

LoaderNext ==
    \/ NextBatch /\ UNCHANGED ctorVars
    \/ NewPass /\ UNCHANGED ctorVars

LoaderSpec == LoaderInit /\ [][LoaderNext]_vars

\* the pass over the loader is over
Exhausted == NextBatchOf(LoaderOptions(split), order, pos) = <<>>

CeilDiv(a, b) == (a + b - 1) \div b

\* how many times sample s was yielded
TimesYielded(s) ==
    Cardinality({ij \in {<<i, j>> : i \in 1..Len(batches), j \in 1..BatchSize} :
                    ij[2] <= Len(batches[ij[1]]) /\ batches[ij[1]][ij[2]] = s})

-----------------------------------------------------------------------------
(* The claims. *)

\* the constructor call was given a data root all of whose split directories exist
DirsOk == data_dir # None /\ Missing(fs, data_dir) = {}

\* the parameters the pre-trained model came with
PretrainedParams(m) == UNION {ParamsOf(m.gen, a) : a \in PretrainedAttrs(m.arch)}

\* C1: once the constructor was called with a data root of which a split
\* directory is absent, construction has failed with a NotADirectoryError that
\* names an absent split and that split's path, and no dataset, loader, model
\* or optimizer was built and no pre-trained model instantiated.
C1_MissingDirectoryFails ==
    (pc # "new" /\ data_dir # None /\ Missing(fs, data_dir) # {}) =>
        /\ pc = "failed"
        /\ err.kind = "NotADirectoryError"
        /\ err.name \in Missing(fs, data_dir)
        /\ err.path = join(data_dir, err.name)
        /\ data_sets = None
        /\ data_loaders = None
        /\ model = None
        /\ optimizer = None
        /\ gen = 0

\* construction failed on a root where test exists and train and valid are absent
C1_Witness ==
    /\ pc = "failed"
    /\ data_dir = DataRoot
    /\ Missing(fs, data_dir) = {"train", "valid"}
    /\ err.kind = "NotADirectoryError"
    /\ err.name = "train"

\* C2: with an architecture name the registry does not resolve, construction
\* never succeeds; when it got as far as _get_model it failed with the
\* ValueError "Unknown model architecture" naming the architecture, nothing
\* was instantiated and model and optimizer are still None; and a later
\* _initialize_network with such a name fails with the same error.
C2_UnknownArchitectureFails ==
    /\ lastOp = "construct_ok" => config.architecture \in ModelsNamespace
    /\ (lastOp = "construct_failed" /\ DirsOk /\ config.architecture \notin ModelsNamespace) =>
          /\ err = Error("ValueError", "Unknown model architecture", config.architecture, None)
          /\ model = None
          /\ optimizer = None
          /\ gen = 0
    /\ (lastOp \in {"init_ok", "init_failed"} /\ config.architecture \notin ModelsNamespace) =>
          /\ lastOp = "init_failed"
          /\ err = Error("ValueError", "Unknown model architecture", config.architecture, None)

\* construction reached _get_model with the name not_a_real_net and failed
C2_Witness ==
    /\ lastOp = "construct_failed"
    /\ DirsOk
    /\ config.architecture = "not_a_real_net"
    /\ err.kind = "ValueError"
    /\ model = None

\* C3: in every model _get_model returned, the trainable parameters are
\* exactly the parameters of the new head; the parameters of the pre-trained
\* feature extractor are all still in the model, all frozen, and the model
\* has no parameter besides the pre-trained ones and the head's.
C3_OnlyHeadTrainable ==
    model # None =>
        /\ Trainable(model) = model.head.params
        /\ ExtractorParams(model) \subseteq Parameters(model)
        /\ \A p \in ExtractorParams(model) : ~model.requires_grad[p]
        /\ Parameters(model) \ model.head.params \subseteq PretrainedParams(model)
        /\ model.head.params \cap PretrainedParams(model) = {}

\* a resnet18 model was built and is the object's model
C3_Witness ==
    /\ model # None
    /\ model.arch = "resnet18"
    /\ Cardinality(Trainable(model)) = 4
    /\ Cardinality(Parameters(model)) > 4

\* C4: right after a successful _initialize_network (in the constructor or
\* later), the optimizer's parameters are exactly the parameters of the head
\* of the current model, which was built from the current configuration:
\* none is a parameter of the frozen pre-trained part or of an earlier
\* model, and the optimizer's learning rate is the configured one.
C4_OptimizerBoundToHead ==
    lastOp \in {"construct_ok", "init_ok"} =>
        /\ model # None /\ optimizer # None
        /\ model.gen = gen
        /\ model.arch = config.architecture
        /\ model.head.hidden = config.hidden_units
        /\ model.head.dropout = config.dropout
        /\ optimizer.params = model.head.params
        /\ optimizer.params \cap PretrainedParams(model) = {}
        /\ \A p \in optimizer.params : p[1] = gen
        /\ optimizer.lr = config.learning_rate

\* the third initialization succeeded, after the configuration was changed
C4_Witness ==
    /\ lastOp = "init_ok"
    /\ gen = MaxInits
    /\ config.architecture = "resnet18"
    /\ config.hidden_units = 256
    /\ config.dropout = 50
    /\ config.learning_rate = 3
    /\ optimizer.lr = 3

\* C5: right after a successful initialization the head's first linear layer
\* takes the feature width of the selected architecture, and that width is
\* the input_units of the configuration record.
C5_InputUnitsResolved ==
    lastOp \in {"construct_ok", "init_ok"} =>
        /\ model.head.in_features = FeatureWidth(model.arch)
        /\ config.input_units = FeatureWidth(model.arch)

\* C6: a call of forward returns without raising, does not call
\* Classifier.forward again and calls the composed model once.
C6_ForwardDelegatesOnce ==
    lastOp = "forward" =>
        /\ fwd.raised = None
        /\ fwd.selfCalls = 0
        /\ fwd.modelCalls = 1

\* C7: a constructor call without a data root, with an architecture that has
\* a constructor and a valid learning rate, raises nothing and builds model
\* and optimizer.
C7_NoDataRootConstructs ==
    (pc # "new" /\ data_dir = None /\ config.architecture \in ModelFactories
       /\ config.learning_rate >= 0 /\ lastOp \in {"construct_ok", "construct_failed"}) =>
        /\ lastOp = "construct_ok"
        /\ err = None
        /\ model # None
        /\ optimizer # None

\* C8: when a pass over the train loader is over, it has yielded
\* ceil(N/64) batches, every sample exactly once, every batch but the last
\* of 64 samples and the last of N mod 64 samples, or 64 when that is 0.
C8_TrainLoaderBatches ==
    (split = "train" /\ Exhausted) =>
        /\ Len(batches) = CeilDiv(N, BatchSize)
        /\ \A s \in 1..N : TimesYielded(s) = 1
        /\ \A i \in 1..(Len(batches) - 1) : Len(batches[i]) = BatchSize
        /\ Len(batches[Len(batches)]) = IF N % BatchSize = 0 THEN BatchSize ELSE N % BatchSize

\* a shuffled pass over 130 samples is over: two full batches and one of two
C8_Witness ==
    /\ split = "train"
    /\ Exhausted
    /\ N = 130
    /\ order # Rotate(N, 0)
    /\ Len(batches) = 3
    /\ Len(batches[3]) = 2

\* C9: in every model _get_model returned, the sub-module that produces the
\* model's output is the new head, and no parameter of the pre-trained
\* classification sub-module is left in the model.
C9_ClassifierReplaced ==
    model # None =>
        /\ model.children[model.output_attr] = model.head.params
        /\ ParamsOf(model.gen, ClassifierAttr(model.arch)) \cap Parameters(model) = {}

\* C10: a call of _initialize_network that fails on a constructed object
\* leaves model and optimizer as they were.
C10_FailedInitLeavesPair ==
    [][(pc = "ready" /\ lastOp' = "init_failed") =>
          (model' = model /\ optimizer' = optimizer)]_vars

====
